---- MODULE Spec2Model ----
(***************************************************************************)
(* MidiExporter, src/midi_transcriber.py: the Event Mapper                 *)
(* (transcribe_midi), the Interval Pairer (convert_to_midi_notes) and the  *)
(* Transform Pipeline (apply_transforms), driven as main() drives them.    *)
(*                                                                         *)
(* MidiNote objects are mutable Python objects: the model keeps them in a  *)
(* heap (a sequence of records, an object's identity is its position) and  *)
(* lists hold object identities, so that an in-place edit of an object is  *)
(* seen through every list that holds it.                                  *)
(***************************************************************************)
EXTENDS Integers, Sequences, FiniteSets, TLC

\* ---------------------------------------------------------------- bounds
MaxEvents == 4      \* longest event list handed to the Pairer
MaxTick   == 2      \* event times are 0, 100, .., 100 * MaxTick
MaxLimit  == 2      \* largest --limit value tried (0 .. MaxLimit, or none)
MaxNotes  == 2      \* longest interval list handed directly to the pipeline

\* ------------------------------------------------------ program constants
NOTE_MIN == 53
NOTE_MAX == 79
default_tempo == 500000     \* transcribe_midi: 120 BPM

\* ---------------------------------------------------------- input domains
Pitches == {60, 62}
Times   == {100 * k : k \in 0..MaxTick}
States  == {"ON", "OFF"}

SeqsUpTo(S, n) == UNION {[1..k -> S] : k \in 0..n}

\* the Pairer's precondition: the event list is ordered by time
TimeOrdered(ev) == \A k \in 1..(Len(ev) - 1) : ev[k].t_ms <= ev[k + 1].t_ms

\* the (note_num, t_ms, state) tuples of transcribe_midi
EventList(ns, ts) ==
    [k \in 1..Len(ns) |->
        [note_num |-> ns[k][1], t_ms |-> ts[k], state |-> ns[k][2]]]

SortedTimes(n) ==
    {ts \in [1..n -> Times] : \A k \in 1..(n - 1) : ts[k] <= ts[k + 1]}

NoLimit   == [given |-> FALSE, n |-> 0]
Limits    == {NoLimit} \cup {[given |-> TRUE, n |-> k] : k \in 0..MaxLimit}

\* time_scale as a number of halves: -1/2, 0, 1/2, 1, 3/2 (all exact floats)
ScaleHalves == {-1, 0, 1, 2, 3}
Shifts      == {0, 50, -100}
MinDurs     == {0, 40}
Transposes  == {0, 5}
DefaultOpts == [time_shift_ms |-> 0, time_scale2 |-> 2, min_duration_ms |-> 0]
Options     == [time_shift_ms : Shifts, time_scale2 : ScaleHalves,
                min_duration_ms : MinDurs]

\* intervals handed directly to apply_transforms (any caller, not only main)
DirectPitches == {60, 125}
DirectStarts  == {5, 1000}
DirectDurs    == {10, 60, 200}

\* MIDI files handed to transcribe_midi: a resolution and a list of tracks,
\* each track a list of messages with a delta time in ticks
MaxMsgs     == 3    \* most messages in a file, over all its tracks
TrackCounts == 0..3  \* tracks in a file (only the first two are read)
Resolutions == {480}
DeltaTicks  == {0, 480}
MsgKinds ==
    { [type |-> "note_on",   note |-> 60, velocity |-> 64, tempo |-> 0],
      [type |-> "note_on",   note |-> 60, velocity |-> 0,  tempo |-> 0],
      [type |-> "note_off",  note |-> 60, velocity |-> 64, tempo |-> 0],
      [type |-> "set_tempo", note |-> 0,  velocity |-> 0,  tempo |-> 250000] }
Msgs ==
    { [type |-> k.type, time |-> d, note |-> k.note, velocity |-> k.velocity,
       tempo |-> k.tempo] : k \in MsgKinds, d \in DeltaTicks }

\* the tracks of a file: a message list cut into nt consecutive tracks
Cuts(n, nt) ==
    {c \in [0..nt -> 0..n] :
        c[0] = 0 /\ c[nt] = n /\ \A t \in 1..nt : c[t - 1] <= c[t]}
SplitAt(ms, c, nt) == [t \in 1..nt |-> SubSeq(ms, c[t - 1] + 1, c[t])]

NoFile == [ticks_per_beat |-> 0, tracks |-> <<>>]

VARIABLES
    pc,       \* position in main(): which call is running and where
    events,   \* convert_to_midi_notes: the events argument
    limit,    \* convert_to_midi_notes: the limit argument
    i,        \* convert_to_midi_notes: number of events the for loop consumed
    active,   \* convert_to_midi_notes: active, note -> start_time_ms
    idx,      \* convert_to_midi_notes: idx
    out,      \* convert_to_midi_notes: out (object identities)
    heap,     \* every MidiNote object created so far, by identity
    notes,    \* main: notes returned by convert_to_midi_notes (identities)
    opts,     \* apply_transforms: opts
    mods,     \* apply_transforms: extra_modifiers
    j,        \* apply_transforms: number of notes the for loop consumed
    tout,     \* apply_transforms: out (object identities)
    result,   \* main: notes returned by apply_transforms (identities)
    mid,         \* transcribe_midi: the parsed file, mido.MidiFile(path)
    trk,         \* transcribe_midi: number of tracks the outer loop entered
    mi,          \* transcribe_midi: messages of the track consumed so far
    cur_ticks,   \* transcribe_midi: cur_ticks
    tempo,       \* transcribe_midi: tempo
    note_events, \* transcribe_midi: note_events
    raised,      \* transcribe_midi: the except clause ran (error printed)
    again        \* a caller that calls a function twice: what it keeps

vars == <<pc, events, limit, i, active, idx, out, heap, notes, opts, mods, j,
          tout, result, mid, trk, mi, cur_ticks, tempo, note_events, raised,
          again>>

pairVars  == <<events, limit, i, active, idx, out>>
xformVars == <<opts, mods, j, tout, result>>
mapVars   == <<mid, trk, mi, cur_ticks, tempo, note_events, raised>>

\* ------------------------------------------------------------- MidiNote
MidiNote(index, midiNoteNumber, timeMSec, noteDuration) ==
    [index |-> index, midiNoteNumber |-> midiNoteNumber,
     timeMSec |-> timeMSec, noteDuration |-> noteDuration]

\* the objects a list holds, in list order
Deref(h, list) == [k \in 1..Len(list) |-> h[list[k]]]

EmptyActive == [p \in {} |-> 0]

Min(S) == CHOOSE x \in S : \A y \in S : x <= y
Max(S) == CHOOSE x \in S : \A y \in S : x >= y

\* ------------------------------------------------ convert_to_midi_notes
\* variant: a NoteOn for an active note keeps the stored start
ActiveSetKeepFirst(a, p, t) ==
    [q \in (DOMAIN a) \cup {p} |-> IF q \in DOMAIN a THEN a[q] ELSE t]

\* active[note_num] = t_ms
ActiveSet(a, p, t) ==
    [q \in (DOMAIN a) \cup {p} |-> IF q = p THEN t ELSE a[q]]

\* active.pop(note_num): the table without the key
ActivePop(a, p) == [q \in (DOMAIN a) \ {p} |-> a[q]]

\* variant: the duration is the NoteOff time, the start is not subtracted
PairedNoteEndTime(index, p, start, t) ==
    [index |-> index, midiNoteNumber |-> p, timeMSec |-> start,
     noteDuration |-> t]

\* variant: indices count from one
PairedNoteOneBased(index, p, start, t) ==
    [index |-> index + 1, midiNoteNumber |-> p, timeMSec |-> start,
     noteDuration |-> t - start]

\* MidiNote(index=idx, midiNoteNumber=note_num, timeMSec=start,
\*          noteDuration=t_ms - start)
PairedNote(index, p, start, t) == MidiNote(index, p, start, t - start)

\* limit is not None and len(out) >= limit
LimitReached(lim, n) == lim.given /\ n >= lim.n

\* for n in list: n.timeMSec -= t0   (one subtraction per list position)
RECURSIVE SubtractEach(_, _, _)
SubtractEach(h, list, t0) ==
    IF list = <<>> THEN h
    ELSE SubtractEach(
            [h EXCEPT ![Head(list)].timeMSec = @ - t0], Tail(list), t0)

\* variant: t0 is the start of the first interval, not the least start
NormalizeByFirst(h, list) ==
    IF list = <<>> THEN h
    ELSE SubtractEach(h, list, h[list[1]].timeMSec)

\* if out: t0 = min(n.timeMSec for n in out); for n in out: n.timeMSec -= t0
Normalize(h, list) ==
    IF list = <<>> THEN h
    ELSE SubtractEach(h, list, Min({h[list[k]].timeMSec : k \in 1..Len(list)}))

\* ----------------------------------------------------- apply_transforms
\* int(round(n / 2)): Python's round() takes a tie to the even neighbour
RoundHalfEven2(n) ==
    LET f == n \div 2
    IN  IF n % 2 = 0 THEN f ELSE IF f % 2 = 0 THEN f ELSE f + 1

\* if opts.time_scale != 1.0: timeMSec and noteDuration are scaled and rounded
ScaleNote(m, o) ==
    IF o.time_scale2 # 2
    THEN [m EXCEPT !.timeMSec = RoundHalfEven2(@ * o.time_scale2),
                   !.noteDuration = RoundHalfEven2(@ * o.time_scale2)]
    ELSE m

\* variant: a shifted start is kept from going below zero
ShiftNoteClipped(m, o) ==
    IF o.time_shift_ms # 0
    THEN [m EXCEPT !.timeMSec = IF @ + o.time_shift_ms < 0
                                 THEN 0 ELSE @ + o.time_shift_ms]
    ELSE m

\* if opts.time_shift_ms: m.timeMSec += opts.time_shift_ms
ShiftNote(m, o) ==
    IF o.time_shift_ms # 0
    THEN [m EXCEPT !.timeMSec = @ + o.time_shift_ms]
    ELSE m

\* variant: the comparison is reversed, the floor caps longer durations
FloorNoteCap(m, o) ==
    IF o.min_duration_ms # 0 /\ m.noteDuration > o.min_duration_ms
    THEN [m EXCEPT !.noteDuration = o.min_duration_ms]
    ELSE m

\* if opts.min_duration_ms and m.noteDuration < opts.min_duration_ms
FloorNote(m, o) ==
    IF o.min_duration_ms # 0 /\ m.noteDuration < o.min_duration_ms
    THEN [m EXCEPT !.noteDuration = o.min_duration_ms]
    ELSE m

\* main: make_transposer(semitones)._mod
Transposer(m, semitones) ==
    [m EXCEPT !.midiNoteNumber = Max({0, Min({127, @ + semitones})})]

\* main: _clamp
Clamp(m) ==
    [m EXCEPT !.midiNoteNumber = Max({NOTE_MIN, Min({NOTE_MAX, @})})]

ApplyMod(mod, m) ==
    IF mod.kind = "transpose" THEN Transposer(m, mod.semitones) ELSE Clamp(m)

\* for mod in extra_modifiers: m = mod(m)
RECURSIVE ApplyMods(_, _)
ApplyMods(ms, m) ==
    IF ms = <<>> THEN m ELSE ApplyMods(Tail(ms), ApplyMod(Head(ms), m))

\* variant: the clamp is appended before the transposer
ExtraModsClampFirst(transpose, clamp) ==
    (IF clamp THEN <<[kind |-> "clamp", semitones |-> 0]>> ELSE <<>>)
    \o (IF transpose # 0
        THEN <<[kind |-> "transpose", semitones |-> transpose]>> ELSE <<>>)

\* main: extra_mods, the transposer first and the clamp second
ExtraMods(transpose, clamp) ==
    (IF transpose # 0
     THEN <<[kind |-> "transpose", semitones |-> transpose]>> ELSE <<>>)
    \o (IF clamp THEN <<[kind |-> "clamp", semitones |-> 0]>> ELSE <<>>)

\* variant: the shift is added before the scaling, so it is scaled too
TransformNoteShiftFirst(m, o, ms) ==
    ApplyMods(ms, FloorNote(ScaleNote(ShiftNote(m, o), o), o))

\* the body of the for loop between the copy and the append
TransformNote(m, o, ms) ==
    ApplyMods(ms, FloorNote(ShiftNote(ScaleNote(m, o), o), o))

\* variant: m = n, the loop edits the caller's object
CopyNoteAlias(h, n) == [h |-> h, m |-> n]

\* m = MidiNote(**vars(n)): a new object with n's field values
CopyNote(h, n) == [h |-> Append(h, h[n]), m |-> Len(h) + 1]

\* ------------------------------------------------------------------ Init
\* transcribe_midi is not running and has not failed: its locals are unset
MapIdle ==
    /\ mid = NoFile
    /\ trk = 0
    /\ mi = 0
    /\ cur_ticks = 0
    /\ tempo = default_tempo
    /\ note_events = <<>>
    /\ raised = FALSE

InitMain ==
    /\ pc = "main_234"
    /\ \E n \in 0..MaxEvents :
          \E ns \in [1..n -> Pitches \X States], ts \in SortedTimes(n) :
              events = EventList(ns, ts)
    /\ limit = NoLimit
    /\ i = 0
    /\ active = EmptyActive
    /\ idx = 0
    /\ out = <<>>
    /\ heap = <<>>
    /\ notes = <<>>
    /\ opts = DefaultOpts
    /\ mods = <<>>
    /\ j = 0
    /\ tout = <<>>
    /\ result = <<>>
    /\ MapIdle

\* ------------------------------------- apply_transforms called directly
\* the interval lists a caller may pass: any field values, one object each
DirectNote == [index : {0}, midiNoteNumber : DirectPitches,
               timeMSec : DirectStarts, noteDuration : DirectDurs]

DirectHeaps ==
    {[k \in 1..Len(h) |-> [h[k] EXCEPT !.index = k - 1]] :
        h \in SeqsUpTo(DirectNote, MaxNotes)}

InitDirect ==
    /\ pc = "main_241"
    /\ events = <<>>
    /\ limit = NoLimit
    /\ i = 0
    /\ active = EmptyActive
    /\ idx = 0
    /\ out = <<>>
    /\ heap \in DirectHeaps
    /\ notes = [k \in 1..Len(heap) |-> k]
    /\ opts = DefaultOpts
    /\ mods = <<>>
    /\ j = 0
    /\ tout = <<>>
    /\ result = <<>>
    /\ MapIdle

\* main calls each function once
NoRerun == [mode |-> "none", run |-> 0, first |-> <<>>,
            events |-> <<>>, limit |-> NoLimit]

Init == (InitMain \/ InitDirect) /\ again = NoRerun

\* ------------------------------------------------------ main, the Pairer
\* main: if not events: return
MainNoEvents ==
    /\ pc = "main_234"
    /\ events = <<>>
    /\ pc' = "exit"
    /\ UNCHANGED <<pairVars, heap, notes, xformVars, mapVars, again>>

\* main: notes = convert_to_midi_notes(events, args.limit), up to the loop
CallConvert ==
    /\ pc = "main_234"
    /\ events # <<>>
    /\ \E lim \in Limits : limit' = lim
    /\ out' = <<>>
    /\ active' = EmptyActive
    /\ idx' = 0
    /\ i' = 0
    /\ pc' = "pair_loop"
    /\ UNCHANGED <<events, heap, notes, xformVars, mapVars, again>>

\* where the for loop goes after the event at position i + 1
AfterEvent(broke) ==
    IF broke \/ i + 1 = Len(events) THEN "pair_norm" ELSE "pair_loop"

\* if state == "ON": active[note_num] = t_ms
PairOn ==
    /\ pc = "pair_loop"
    /\ LET e == events[i + 1]
       IN  /\ e.state = "ON"
           /\ active' = ActiveSet(active, e.note_num, e.t_ms)
    /\ i' = i + 1
    /\ pc' = AfterEvent(FALSE)
    /\ UNCHANGED <<events, limit, idx, out, heap, notes, xformVars, mapVars, again>>

\* elif state == "OFF" and note_num in active: pop, append, idx += 1, break?
PairOff ==
    /\ pc = "pair_loop"
    /\ LET e == events[i + 1]
       IN  /\ e.state = "OFF"
           /\ e.note_num \in DOMAIN active
           /\ active' = ActivePop(active, e.note_num)
           /\ heap' = Append(heap,
                        PairedNote(idx, e.note_num, active[e.note_num], e.t_ms))
    /\ out' = Append(out, Len(heap) + 1)
    /\ idx' = idx + 1
    /\ i' = i + 1
    /\ pc' = AfterEvent(LimitReached(limit, Len(out) + 1))
    /\ UNCHANGED <<events, limit, notes, xformVars, mapVars, again>>

\* variant: an unmatched OFF still advances idx
PairDropAdvancesIdx ==
    /\ pc = "pair_loop"
    /\ LET e == events[i + 1]
       IN  /\ e.state = "OFF"
           /\ e.note_num \notin DOMAIN active
    /\ i' = i + 1
    /\ idx' = idx + 1
    /\ pc' = AfterEvent(FALSE)
    /\ UNCHANGED <<events, limit, active, out, heap, notes, xformVars, mapVars, again>>

\* an OFF whose note is not in active: neither branch is taken
PairDrop ==
    /\ pc = "pair_loop"
    /\ LET e == events[i + 1]
       IN  /\ e.state = "OFF"
           /\ e.note_num \notin DOMAIN active
    /\ i' = i + 1
    /\ pc' = AfterEvent(FALSE)
    /\ UNCHANGED <<events, limit, active, idx, out, heap, notes, xformVars, mapVars, again>>

\* after the loop: re-normalize and return out; the call's locals are gone,
\* and main reads neither events nor args.limit after the call
PairReturn ==
    /\ pc = "pair_norm"
    /\ heap' = Normalize(heap, out)
    /\ notes' = out
    /\ events' = <<>>
    /\ limit' = NoLimit
    /\ i' = 0
    /\ active' = EmptyActive
    /\ idx' = 0
    /\ out' = <<>>
    /\ pc' = "main_241"
    /\ UNCHANGED <<xformVars, mapVars, again>>

\* ------------------------------------------------- main, the pipeline
\* main: topts, extra_mods, notes = apply_transforms(notes, topts, extra_mods)
CallTransforms ==
    /\ pc = "main_241"
    /\ \E o \in Options, tr \in Transposes, cl \in BOOLEAN :
          /\ opts' = o
          /\ mods' = ExtraMods(tr, cl)
    /\ j' = 0
    /\ tout' = <<>>
    /\ pc' = IF notes = <<>> THEN "xform_norm" ELSE "xform_loop"
    /\ UNCHANGED <<pairVars, heap, notes, result, mapVars, again>>

\* one iteration of for n in notes: copy, scale, shift, floor, modifiers, append
XformStep ==
    /\ pc = "xform_loop"
    /\ LET c == CopyNote(heap, notes[j + 1])
       IN  /\ heap' = [c.h EXCEPT ![c.m] = TransformNote(@, opts, mods)]
           /\ tout' = Append(tout, c.m)
    /\ j' = j + 1
    /\ pc' = IF j + 1 = Len(notes) THEN "xform_norm" ELSE "xform_loop"
    /\ UNCHANGED <<pairVars, notes, opts, mods, result, mapVars, again>>

\* after the loop: re-normalize and return out
XformReturn ==
    /\ pc = "xform_norm"
    /\ heap' = Normalize(heap, tout)
    /\ result' = tout
    /\ pc' = "done"
    /\ UNCHANGED <<pairVars, notes, opts, mods, j, tout, mapVars, again>>

Next ==
    \/ MainNoEvents
    \/ CallConvert
    \/ PairOn
    \/ PairOff
    \/ PairDrop
    \/ PairReturn
    \/ CallTransforms
    \/ XformStep
    \/ XformReturn

Spec == Init /\ [][Next]_vars

\* ===================================================================
\* The Event Mapper, transcribe_midi, as main() calls it
\* ===================================================================

\* mid.tracks[:2]
FirstTwo(tracks) == SubSeq(tracks, 1, Min({2, Len(tracks)}))

\* int((cur_ticks * tempo) / (ticks_per_beat * 1000)), operands >= 0
TimeMs(ticks, tp, tpb) == (ticks * tp) \div (tpb * 1000)

\* variant: an event goes before the events of the same time
InsertBeforeTies(s, e) ==
    LET n == Cardinality({k \in 1..Len(s) : s[k].t_ms < e.t_ms})
    IN  SubSeq(s, 1, n) \o <<e>> \o SubSeq(s, n + 1, Len(s))

\* where a stable sort puts e in the sorted list s: after every event
\* whose time is not greater
InsertByTime(s, e) ==
    LET n == Cardinality({k \in 1..Len(s) : s[k].t_ms <= e.t_ms})
    IN  SubSeq(s, 1, n) \o <<e>> \o SubSeq(s, n + 1, Len(s))

RECURSIVE SortByTime(_)
\* note_events.sort(key=lambda x: x[1]): list.sort is stable
SortByTime(s) ==
    IF s = <<>> THEN <<>>
    ELSE InsertByTime(SortByTime(SubSeq(s, 1, Len(s) - 1)), s[Len(s)])

InitFile ==
    /\ pc = "map_open"
    /\ \E n \in 0..MaxMsgs, nt \in TrackCounts, r \in Resolutions :
          \E ms \in [1..n -> Msgs], c \in Cuts(n, nt) :
              mid = [ticks_per_beat |-> r, tracks |-> SplitAt(ms, c, nt)]
    /\ trk = 0
    /\ mi = 0
    /\ cur_ticks = 0
    /\ tempo = default_tempo
    /\ note_events = <<>>
    /\ raised = FALSE
    /\ again = NoRerun
    /\ events = <<>>
    /\ limit = NoLimit
    /\ i = 0
    /\ active = EmptyActive
    /\ idx = 0
    /\ out = <<>>
    /\ heap = <<>>
    /\ notes = <<>>
    /\ opts = DefaultOpts
    /\ mods = <<>>
    /\ j = 0
    /\ tout = <<>>
    /\ result = <<>>

restVars == <<limit, i, active, idx, out, heap, notes, xformVars, again>>

\* mido.MidiFile(path) parsed the file; note_events = []
MapOpen ==
    /\ pc = "map_open"
    /\ pc' = "map_track"
    /\ note_events' = <<>>
    /\ trk' = 0
    /\ UNCHANGED <<mid, mi, cur_ticks, tempo, raised, events, restVars>>

\* mido.MidiFile(path) raised: missing, unreadable or malformed file
MapOpenFail ==
    /\ pc = "map_open"
    /\ pc' = "map_except"
    /\ UNCHANGED <<mapVars, events, restVars>>

\* the outer for loop enters the next of the first two tracks
MapNextTrack ==
    /\ pc = "map_track"
    /\ trk < Len(FirstTwo(mid.tracks))
    /\ trk' = trk + 1
    /\ cur_ticks' = 0
    /\ tempo' = default_tempo
    /\ mi' = 0
    /\ pc' = IF mid.tracks[trk + 1] = <<>> THEN "map_track" ELSE "map_msg"
    /\ UNCHANGED <<mid, note_events, raised, events, restVars>>

\* the message the inner loop takes next
CurMsg == mid.tracks[trk][mi + 1]

\* the inner loop moves on, or the track is exhausted
AfterMsg ==
    /\ mi' = mi + 1
    /\ pc' = IF mi + 1 = Len(mid.tracks[trk]) THEN "map_track" ELSE "map_msg"
    /\ UNCHANGED <<mid, trk, raised, events, restVars>>

MapTempo ==
    /\ pc = "map_msg"
    /\ CurMsg.type = "set_tempo"
    /\ cur_ticks' = cur_ticks + CurMsg.time
    /\ tempo' = CurMsg.tempo
    /\ UNCHANGED note_events
    /\ AfterMsg

MapNoteOn ==
    /\ pc = "map_msg"
    /\ CurMsg.type = "note_on" /\ CurMsg.velocity > 0
    /\ cur_ticks' = cur_ticks + CurMsg.time
    /\ note_events' = Append(note_events,
          [note_num |-> CurMsg.note,
           t_ms |-> TimeMs(cur_ticks', tempo, mid.ticks_per_beat),
           state |-> "ON"])
    /\ UNCHANGED tempo
    /\ AfterMsg

MapNoteOff ==
    /\ pc = "map_msg"
    /\ \/ CurMsg.type = "note_off"
       \/ CurMsg.type = "note_on" /\ CurMsg.velocity = 0
    /\ cur_ticks' = cur_ticks + CurMsg.time
    /\ note_events' = Append(note_events,
          [note_num |-> CurMsg.note,
           t_ms |-> TimeMs(cur_ticks', tempo, mid.ticks_per_beat),
           state |-> "OFF"])
    /\ UNCHANGED tempo
    /\ AfterMsg

\* something in the try body raised while the tracks were being read
MapFail ==
    /\ pc \in {"map_track", "map_msg"}
    /\ pc' = "map_except"
    /\ UNCHANGED <<mapVars, events, restVars>>

\* the locals of transcribe_midi are gone once it has returned normally
MapLocalsGone ==
    /\ trk' = 0
    /\ mi' = 0
    /\ cur_ticks' = 0
    /\ tempo' = default_tempo
    /\ note_events' = <<>>
    /\ UNCHANGED <<mid, restVars>>

\* both loops are over: sort by time and return to main
MapSort ==
    /\ pc = "map_track"
    /\ trk = Len(FirstTwo(mid.tracks))
    /\ events' = SortByTime(note_events)
    /\ pc' = "main_234"
    /\ UNCHANGED raised
    /\ MapLocalsGone

\* variant: the handler returns what had been collected before the failure
MapExceptPartial ==
    /\ pc = "map_except"
    /\ raised' = TRUE
    /\ events' = note_events
    /\ pc' = "main_234"
    /\ UNCHANGED <<mid, trk, mi, cur_ticks, tempo, note_events, restVars>>

\* except Exception: print the error, return []; the locals stay as the
\* failure found them (nothing reads them again)
MapExcept ==
    /\ pc = "map_except"
    /\ raised' = TRUE
    /\ events' = <<>>
    /\ pc' = "main_234"
    /\ UNCHANGED <<mid, trk, mi, cur_ticks, tempo, note_events, restVars>>

NextM ==
    \/ MapOpen
    \/ MapOpenFail
    \/ MapNextTrack
    \/ MapTempo
    \/ MapNoteOn
    \/ MapNoteOff
    \/ MapFail
    \/ MapSort
    \/ MapExcept
    \/ MainNoEvents
    \/ CallConvert

SpecM == InitFile /\ [][NextM]_vars

\* ===================================================================
\* Properties
\* ===================================================================

\* the most recent event before position k for the note of event k, or 0
PrevOf(ev, k) ==
    LET S == {m \in 1..(k - 1) : ev[m].note_num = ev[k].note_num}
    IN  IF S = {} THEN 0 ELSE Max(S)

\* event k is an OFF whose note's most recent earlier event is an ON
Closes(ev, k) ==
    /\ ev[k].state = "OFF"
    /\ PrevOf(ev, k) # 0
    /\ ev[PrevOf(ev, k)].state = "ON"

Closers(ev, n) == {k \in 1..n : Closes(ev, k)}

\* the m-th smallest element of a set of numbers
NthOf(S, m) == CHOOSE k \in S : Cardinality({x \in S : x <= k}) = m

\* the most recent event for note p among the first n, or 0
LastFor(ev, n, p) ==
    LET S == {m \in 1..n : ev[m].note_num = p}
    IN  IF S = {} THEN 0 ELSE Max(S)

InPairer == pc \in {"pair_loop", "pair_norm"}

\* C1: while pairing, the intervals emitted so far are, in order, exactly one
\* per consumed NoteOff that found its pitch active; each has that pitch and
\* the NoteOff time minus the time of the most recent NoteOn of the pitch; the
\* table holds one start per pitch, the time of the pitch's most recent event
\* when that event is a NoteOn, so an earlier NoteOn is overwritten.
C1_LastStartWins ==
    InPairer =>
        /\ Len(out) = Cardinality(Closers(events, i))
        /\ \A m \in 1..Len(out) :
              LET k == NthOf(Closers(events, i), m)
                  n == heap[out[m]]
              IN  /\ n.midiNoteNumber = events[k].note_num
                  /\ n.noteDuration =
                        events[k].t_ms - events[PrevOf(events, k)].t_ms
        /\ \A p \in Pitches :
              LET last == LastFor(events, i, p)
              IN  /\ p \in DOMAIN active
                        <=> (last # 0 /\ events[last].state = "ON")
                  /\ p \in DOMAIN active => active[p] = events[last].t_ms

\* a NoteOn overwrote an active start of a later time and the note was closed
C1_Witness ==
    /\ pc = "pair_norm"
    /\ \E k \in Closers(events, i) :
          LET on2 == PrevOf(events, k)
              on1 == PrevOf(events, on2)
          IN  /\ on1 # 0
              /\ events[on1].state = "ON"
              /\ events[on1].t_ms < events[on2].t_ms

\* the event sequence NoteOn(60,@0), NoteOn(60,@100), NoteOff(60,@200)
OverwriteExample ==
    <<[note_num |-> 60, t_ms |-> 0, state |-> "ON"],
      [note_num |-> 60, t_ms |-> 100, state |-> "ON"],
      [note_num |-> 60, t_ms |-> 200, state |-> "OFF"]>>

\* C2: once the Pairer has consumed NoteOn(60,@0), NoteOn(60,@100),
\* NoteOff(60,@200), the one interval it has emitted is for pitch 60 with
\* startMs = 100 and durationMs = 100 (whatever the limit).
C2_OverwriteExample ==
    (InPairer /\ events = OverwriteExample /\ i = 3) =>
        Deref(heap, out) = <<MidiNote(0, 60, 100, 100)>>

C2_Witness ==
    /\ pc = "pair_norm"
    /\ events = OverwriteExample
    /\ i = 3
    /\ Len(out) = 1

\* the least start of a list is 0 (so no start is negative)
StartsAtZero(h, list) ==
    /\ \A k \in 1..Len(list) : h[list[k]].timeMSec >= 0
    /\ \E k \in 1..Len(list) : h[list[k]].timeMSec = 0

\* C3: every non-empty list returned by convert_to_midi_notes and by
\* apply_transforms has least startMs 0 and no negative startMs; an empty
\* list is returned as it is, with no object touched.
C3_Renormalized ==
    [][/\ pc = "pair_norm" =>
            /\ notes' = out
            /\ IF out = <<>> THEN heap' = heap ELSE StartsAtZero(heap', notes')
       /\ pc = "xform_norm" =>
            /\ result' = tout
            /\ IF tout = <<>> THEN heap' = heap
                              ELSE StartsAtZero(heap', result')]_vars

\* a pipeline result of two intervals whose starts were negative before the
\* re-normalization and differ after it
C3_Witness ==
    /\ pc = "done"
    /\ Len(result) = 2
    /\ opts.time_shift_ms < 0
    /\ heap[result[1]].timeMSec # heap[result[2]].timeMSec
    /\ StartsAtZero(heap, result)

\* C4 as stated: with limit N given, the Pairer returns at most N intervals,
\* for every N including 0.
C4_AtMostLimit ==
    (pc = "pair_norm" /\ limit.given) => Len(out) <= limit.n

\* C5: consuming a NoteOff whose pitch has no active start (its pitch's most
\* recent earlier event is not a NoteOn) emits nothing, keeps the next index,
\* the active-note table and every emitted interval, and the loop goes on.
C5_UnmatchedOffDropped ==
    [][(/\ pc = "pair_loop"
        /\ events[i + 1].state = "OFF"
        /\ ~Closes(events, i + 1)) =>
            /\ out' = out
            /\ idx' = idx
            /\ active' = active
            /\ heap' = heap
            /\ i' = i + 1
            /\ pc' \in {"pair_loop", "pair_norm"}]_vars

\* the event just consumed was an unmatched NoteOff, met while another pitch
\* was active and an interval had been emitted
C5_Witness ==
    /\ InPairer
    /\ i >= 1
    /\ events[i].state = "OFF"
    /\ ~Closes(events, i)
    /\ out # <<>>
    /\ active # EmptyActive

\* the interval at list position k has index k - 1
IndexedFromZero(h, list) ==
    \A k \in 1..Len(list) : h[list[k]].index = k - 1

\* C6: in the list the Pairer returns and in the list the pipeline returns
\* for it, the interval at position i has index i (zero-based, gap-free).
C6_IndexIsPosition ==
    /\ pc = "pair_norm" => IndexedFromZero(heap, out)
    /\ pc = "main_241" => IndexedFromZero(heap, notes)
    /\ pc = "done" => IndexedFromZero(heap, result) /\ Len(result) = Len(notes)

\* the pipeline returned two intervals, transposed and clamped, for a list
\* the Pairer returned (its first two objects, re-normalized to start at 0)
C6_Witness ==
    /\ pc = "done"
    /\ Len(result) = 2
    /\ Len(mods) = 2
    /\ heap[result[2]].index = 1
    /\ notes = <<1, 2>>
    /\ heap[2].timeMSec = 0
    /\ heap[1].timeMSec = 100

\* startMs is non-decreasing along the list
StartsNonDecreasing(h, list) ==
    \A k \in 1..(Len(list) - 1) :
        h[list[k]].timeMSec <= h[list[k + 1]].timeMSec

\* C7 as stated: the list the Pairer returns for a time-ordered event
\* sequence has non-decreasing startMs.
C7_OrderedByStart ==
    [][pc = "pair_norm" => StartsNonDecreasing(heap', notes')]_vars

InPipeline == pc \in {"main_241", "xform_loop", "xform_norm"}

Range(list) == {list[k] : k \in 1..Len(list)}

\* C8: no step of apply_transforms changes its input list or any field of an
\* interval in it, and the list it builds and returns holds none of the
\* input's objects, whatever the options and the transpose/clamp modifiers.
C8_InputNotMutated ==
    [][InPipeline =>
        /\ notes' = notes
        /\ Deref(heap', notes') = Deref(heap, notes)
        /\ Range(tout') \cap Range(notes') = {}
        /\ Range(result') \cap Range(notes') = {}]_vars

\* the pipeline returned an interval whose pitch, start and duration all
\* differ from those of the input interval it was made from
C8_Witness ==
    /\ pc = "done"
    /\ mods # <<>>
    /\ \E k \in 1..Len(result) :
          /\ heap[result[k]].midiNoteNumber # heap[notes[k]].midiNoteNumber
          /\ heap[result[k]].timeMSec # heap[notes[k]].timeMSec
          /\ heap[result[k]].noteDuration # heap[notes[k]].noteDuration

\* r is n / 2 rounded to the nearest integer, a tie going to the even one
IsRoundedHalf(r, n) ==
    /\ 2 * r - n \in {-1, 0, 1}
    /\ n % 2 = 1 => r % 2 = 0

\* x * time_scale rounded, for time_scale = s2 / 2
Scaled(x, s2) ==
    LET n == x * s2
    IN  CHOOSE r \in {n \div 2, (n \div 2) + 1} : IsRoundedHalf(r, n)

\* C9: for a valid (positive) timeScale, before the final re-normalization
\* every transformed interval has startMs = round(startMs * timeScale) +
\* timeShiftMs and durationMs = max(round(durationMs * timeScale),
\* minDurationMs); {start 1000, duration 200} with timeScale 0.5 and
\* timeShiftMs 50 gives {start 550, duration 100}.
C9_ScaleShiftFloor ==
    (pc \in {"xform_loop", "xform_norm"} /\ opts.time_scale2 > 0) =>
        \A k \in 1..Len(tout) :
            LET a == heap[notes[k]]
                b == heap[tout[k]]
            IN  /\ b.timeMSec =
                      Scaled(a.timeMSec, opts.time_scale2) + opts.time_shift_ms
                /\ b.noteDuration =
                      Max({Scaled(a.noteDuration, opts.time_scale2),
                           opts.min_duration_ms})
                /\ (/\ a.timeMSec = 1000
                    /\ a.noteDuration = 200
                    /\ opts.time_scale2 = 1
                    /\ opts.time_shift_ms = 50) =>
                        (b.timeMSec = 550 /\ b.noteDuration = 100)

C9_Witness ==
    /\ pc = "xform_norm"
    /\ opts.time_scale2 = 1
    /\ opts.time_shift_ms = 50
    /\ \E k \in 1..Len(tout) :
          /\ heap[notes[k]].timeMSec = 1000
          /\ heap[notes[k]].noteDuration = 200
          /\ heap[tout[k]].timeMSec = 550
          /\ heap[tout[k]].noteDuration = 100

\* C10: in the pipeline's output, with minDurationMs = m > 0 every duration
\* is >= m, a scaled duration below m has become m and one >= m is kept
\* (m = 40: 10 -> 40, 60 -> 60); with m = 0 every duration is the scaled one.
C10_DurationFloor ==
    pc = "done" =>
        \A k \in 1..Len(result) :
            LET d  == heap[notes[k]].noteDuration
                sd == Scaled(d, opts.time_scale2)
                b  == heap[result[k]].noteDuration
                m  == opts.min_duration_ms
            IN  /\ m > 0 => b >= m
                /\ (m > 0 /\ sd < m) => b = m
                /\ sd >= m => b = sd
                /\ m = 0 => b = sd
                /\ (m = 40 /\ opts.time_scale2 = 2 /\ d = 10) => b = 40
                /\ (m = 40 /\ opts.time_scale2 = 2 /\ d = 60) => b = 60

\* with m = 40 and no scaling, one list held a duration of 10, now 40, and a
\* duration of 60, still 60
C10_Witness ==
    /\ pc = "done"
    /\ opts.min_duration_ms = 40
    /\ opts.time_scale2 = 2
    /\ \E k, l \in 1..Len(result) :
          /\ heap[notes[k]].noteDuration = 10
          /\ heap[result[k]].noteDuration = 40
          /\ heap[notes[l]].noteDuration = 60
          /\ heap[result[l]].noteDuration = 60

\* x brought into [lo, hi]
ClampTo(x, lo, hi) == IF x < lo THEN lo ELSE IF x > hi THEN hi ELSE x

HasTranspose == \E k \in 1..Len(mods) : mods[k].kind = "transpose"
HasClamp     == \E k \in 1..Len(mods) : mods[k].kind = "clamp"

\* C11: when transposition by N and clamping are both configured the list is
\* <<transpose, clamp>> and every output pitch is
\* clamp(clamp(pitch + N, 0, 127), 53, 79), within [53, 79]; with
\* transposition alone it is clamp(pitch + N, 0, 127), within [0, 127].
C11_TransposeThenClamp ==
    pc = "done" =>
        /\ (HasTranspose /\ HasClamp) =>
              /\ Len(mods) = 2
              /\ mods[1].kind = "transpose"
              /\ mods[2].kind = "clamp"
        /\ \A k \in 1..Len(result) :
              LET p == heap[notes[k]].midiNoteNumber
                  q == heap[result[k]].midiNoteNumber
              IN  /\ (HasTranspose /\ HasClamp) =>
                        /\ q = ClampTo(ClampTo(p + mods[1].semitones, 0, 127),
                                       53, 79)
                        /\ q \in 53..79
                  /\ (HasTranspose /\ ~HasClamp) =>
                        /\ q = ClampTo(p + mods[1].semitones, 0, 127)
                        /\ q \in 0..127

\* pitch 125 transposed by +5 and clamped came out as 79 (clamping first
\* would have given 84)
C11_Witness ==
    /\ pc = "done"
    /\ HasTranspose
    /\ HasClamp
    /\ \E k \in 1..Len(result) :
          /\ heap[notes[k]].midiNoteNumber = 125
          /\ heap[result[k]].midiNoteNumber = 79

\* C12 as stated: a configuration with a non-positive timeScale is rejected,
\* the pipeline returns no interval for it, and no returned interval has a
\* negative duration.
C12_InvalidScaleRejected ==
    pc = "done" =>
        /\ opts.time_scale2 <= 0 => result = <<>>
        /\ \A k \in 1..Len(result) : heap[result[k]].noteDuration >= 0

Vals(h, l) == [k \in 1..Len(l) |-> h[l[k]]]

\* the caller keeps the event list and the limit, or the interval list
InitTwice ==
    \/ /\ InitMain
       /\ events # <<>>
       /\ \E lim \in Limits :
             again = [mode |-> "pair", run |-> 0, first |-> <<>>,
                      events |-> events, limit |-> lim]
    \/ /\ InitDirect
       /\ again = [mode |-> "xform", run |-> 0, first |-> <<>>,
                   events |-> <<>>, limit |-> NoLimit]

\* convert_to_midi_notes(events, limit), first call
CallConvertFirst ==
    /\ again.mode = "pair"
    /\ again.run = 0
    /\ pc = "main_234"
    /\ events # <<>>
    /\ limit' = again.limit
    /\ out' = <<>>
    /\ active' = EmptyActive
    /\ idx' = 0
    /\ i' = 0
    /\ pc' = "pair_loop"
    /\ UNCHANGED <<events, heap, notes, xformVars, mapVars, again>>

\* convert_to_midi_notes(events, limit), second call: the same arguments,
\* the caller has kept the first call's result
CallConvertAgain ==
    /\ again.mode = "pair"
    /\ again.run = 0
    /\ pc = "main_241"
    /\ again' = [again EXCEPT !.run = 1, !.first = Vals(heap, notes)]
    /\ events' = again.events
    /\ limit' = again.limit
    /\ out' = <<>>
    /\ active' = EmptyActive
    /\ idx' = 0
    /\ i' = 0
    /\ pc' = "pair_loop"
    /\ UNCHANGED <<heap, notes, xformVars, mapVars>>

\* apply_transforms(notes, opts, extra_modifiers), first call
CallTransformsFirst ==
    /\ again.mode = "xform"
    /\ again.run = 0
    /\ CallTransforms

\* apply_transforms(notes, opts, extra_modifiers), second call: the same
\* list, options and modifiers, the caller has kept the first call's result
CallTransformsAgain ==
    /\ again.mode = "xform"
    /\ again.run = 0
    /\ pc = "done"
    /\ again' = [again EXCEPT !.run = 1, !.first = Vals(heap, result)]
    /\ j' = 0
    /\ tout' = <<>>
    /\ pc' = IF notes = <<>> THEN "xform_norm" ELSE "xform_loop"
    /\ UNCHANGED <<pairVars, heap, notes, opts, mods, result, mapVars>>

NextTwice ==
    \/ CallConvertFirst
    \/ PairOn
    \/ PairOff
    \/ PairDrop
    \/ PairReturn
    \/ CallConvertAgain
    \/ CallTransformsFirst
    \/ XformStep
    \/ XformReturn
    \/ CallTransformsAgain

SpecTwice == InitTwice /\ [][NextTwice]_vars

\* ===================================================================
\* Properties of the Event Mapper
\* ===================================================================
\* ------------------------------------------------------------------
\* the step appends one event to note_events
Emits == pc = "map_msg" /\ Len(note_events') = Len(note_events) + 1

\* the track being read has already had an event appended
EmittedInTrack ==
    \E m \in 1..mi : mid.tracks[trk][m].type \in {"note_on", "note_off"}

\* C13: within a track, the times given to its successive note events are
\* non-negative and never decrease, whatever the deltas and tempo changes.
C13_MonotonicInTrack ==
    [][Emits =>
          /\ note_events'[Len(note_events')].t_ms >= 0
          /\ EmittedInTrack =>
                note_events'[Len(note_events')].t_ms
                    >= note_events[Len(note_events)].t_ms]_vars

\* the tempo in force when message k of a track arrives: that of the last
\* set_tempo before it, or the default
TempoBefore(track, k) ==
    LET S == {m \in 1..(k - 1) : track[m].type = "set_tempo"}
    IN  IF S = {} THEN default_tempo ELSE track[Max(S)].tempo

RECURSIVE ElapsedUsTimesTpb(_, _)
\* ticks of messages 1..k, each delta converted at the tempo in force while
\* it elapsed (microseconds times ticks_per_beat)
ElapsedUsTimesTpb(track, k) ==
    IF k = 0 THEN 0
    ELSE ElapsedUsTimesTpb(track, k - 1) + track[k].time * TempoBefore(track, k)

\* C14: a tempo change is never retroactive: the time of an event is the
\* time reached at the change plus the later ticks at the new tempo, so
\* every delta is converted at the tempo in force while it elapsed (and 480
\* ticks at 500000 with 480 ticks per quarter are 500 ms).
C14_TempoNotRetroactive ==
    [][Emits =>
          note_events'[Len(note_events')].t_ms
              = ElapsedUsTimesTpb(mid.tracks[trk], mi + 1)
                    \div (mid.ticks_per_beat * 1000)]_vars

RECURSIVE TicksUpTo(_, _)
\* the sum of the deltas of messages 1..k of a track
TicksUpTo(track, k) ==
    IF k = 0 THEN 0 ELSE TicksUpTo(track, k - 1) + track[k].time

\* s holds the events of u ordered by time, those of equal time in the
\* order they have in u
IsStableSortOf(s, u) ==
    /\ Len(s) = Len(u)
    /\ TimeOrdered(s)
    /\ \A t \in {u[k].t_ms : k \in 1..Len(u)} :
          LET AtT(e) == e.t_ms = t
          IN  SelectSeq(s, AtT) = SelectSeq(u, AtT)

\* C15: every processed track starts from cur_ticks = 0 and the default
\* tempo, the time of an event is computed from the ticks and tempo changes
\* of its own track only, events are collected in emission order (track
\* order, then order in the track), and the returned list is that list
\* sorted by time with ties left in emission order.
C15_MultiTrackMerge ==
    [][/\ (pc = "map_track" /\ trk' = trk + 1) =>
              cur_ticks' = 0 /\ tempo' = default_tempo
       /\ Emits =>
             /\ SubSeq(note_events', 1, Len(note_events)) = note_events
             /\ note_events'[Len(note_events')].t_ms =
                    TimeMs(TicksUpTo(mid.tracks[trk], mi + 1),
                           TempoBefore(mid.tracks[trk], mi + 1),
                           mid.ticks_per_beat)
       /\ (pc = "map_track" /\ pc' = "main_234") =>
              IsStableSortOf(events', note_events)]_vars

\* two tracks were merged: the first changed its tempo, the second was
\* converted at the default tempo, and their events tie at 500 ms
C15_Witness ==
    /\ pc = "main_234"
    /\ ~raised
    /\ Len(mid.tracks) >= 2
    /\ \E m \in 1..Len(mid.tracks[1]) : mid.tracks[1][m].type = "set_tempo"
    /\ \E m \in 1..Len(mid.tracks[1]) : mid.tracks[1][m].type = "note_on"
    /\ \E m \in 1..Len(mid.tracks[2]) : mid.tracks[2][m].type = "note_off"
    /\ events = << [note_num |-> 60, t_ms |-> 500, state |-> "ON"],
                   [note_num |-> 60, t_ms |-> 500, state |-> "OFF"] >>

\* C16: when opening the file or reading a track fails, at any point and
\* whatever had been collected, transcribe_midi returns normally with the
\* empty list, and main then stops with no interval list and no output.
C16_FailureReturnsEmpty ==
    [][/\ pc = "map_except" =>
              pc' = "main_234" /\ events' = <<>> /\ raised'
       /\ raised =>
              /\ pc' = "exit"
              /\ events' = <<>> /\ notes' = <<>> /\ result' = <<>>
              /\ heap' = <<>>]_vars

\* the failure came after an event had been collected, and main has stopped
C16_Witness ==
    /\ pc = "exit"
    /\ raised
    /\ note_events # <<>>
    /\ events = <<>> /\ notes = <<>> /\ result = <<>>

\* ===================================================================
\* Properties of repeated calls
\* ===================================================================

\* C17: a second call of convert_to_midi_notes on the same events and
\* limit, and a second call of apply_transforms on the same list, options
\* and modifiers, returns a list with the same length, order and field
\* values as the first call did: the first call leaves nothing behind that
\* changes the second.
C17_SecondRunSame ==
    /\ (again.mode = "pair" /\ again.run = 1 /\ pc = "main_241") =>
           Vals(heap, notes) = again.first
    /\ (again.mode = "xform" /\ again.run = 1 /\ pc = "done") =>
           Vals(heap, result) = again.first

\* the second call of apply_transforms has returned two intervals that it
\* scaled, shifted and transposed
C17_Witness ==
    /\ again.mode = "xform" /\ again.run = 1 /\ pc = "done"
    /\ Len(result) = 2
    /\ opts.time_scale2 = 3 /\ opts.time_shift_ms # 0
    /\ HasTranspose
    /\ Range(result) \cap Range(notes) = {}

====
